---- MODULE Spec2Model ----
(***************************************************************************)
(* Model of src/server/mcpServers.ts: the per-provider table of MCP        *)
(* servers (MCP_SERVERS_BY_PROVIDER), built once when the module is        *)
(* evaluated from literals and process.env, and the two accessors          *)
(* getMcpServers and getAllowedMcpTools.                                   *)
(*                                                                         *)
(* JavaScript values are represented as follows.                           *)
(*   - a string known to be a string (a literal, a template literal, a     *)
(*     provider name, a tool identifier) is a TLA+ string;                 *)
(*   - a value that may be undefined (process.env.X, the optional modelId, *)
(*     an injected env entry) is a tagged record: Undefined or JsString(s);*)
(*   - a plain object is a function from its own property names to values; *)
(*     {} is the function with the empty domain;                           *)
(*   - an array is a sequence;                                             *)
(*   - a built-in reached through the prototype chain is a tagged record.  *)
(***************************************************************************)
EXTENDS Integers, Sequences, FiniteSets, TLC

VARIABLES
    phase,                    \* "loading": module not yet evaluated; "ready": evaluated
    env,                      \* process.env as it is when the module is evaluated
    MCP_SERVERS_BY_PROVIDER,  \* the exported table (meaningful once phase = "ready")
    returned                  \* per caller: the last call it made and what it got back

vars == <<phase, env, MCP_SERVERS_BY_PROVIDER, returned>>

----------------------------------------------------------------------------
(* Bounds *)

NumCallers == 2

Callers == 1..NumCallers

----------------------------------------------------------------------------
(* JavaScript values and the operators the source uses on them *)

Undefined == [jsType |-> "undefined"]

JsString(s) == [jsType |-> "string", value |-> s]

\* Built-ins every object literal inherits from Object.prototype.
ObjectPrototype ==
    [p \in {"constructor", "toString", "valueOf", "hasOwnProperty", "isPrototypeOf"} |->
        [jsType |-> "function", name |-> p]]
    @@ ("__proto__" :> [jsType |-> "object", name |-> "Object.prototype"])

\* obj[key] on an object literal: own property, else prototype chain, else undefined.
PropertyGet(obj, key) ==
    IF key \in DOMAIN obj THEN obj[key]
    ELSE IF key \in DOMAIN ObjectPrototype THEN ObjectPrototype[key]
    ELSE Undefined

\* ToBoolean: undefined and '' are falsy; non-empty strings, objects and functions truthy.
Truthy(v) ==
    IF "jsType" \in DOMAIN v
    THEN CASE v.jsType = "undefined" -> FALSE
           [] v.jsType = "string"    -> v.value # ""
           [] OTHER                  -> TRUE
    ELSE TRUE

\* a || b
JsOr(a, b) == IF Truthy(a) THEN a ELSE b

\* JsToString, as applied by ${...} in a template literal.
JsToString(v) ==
    CASE v.jsType = "undefined" -> "undefined"
      [] v.jsType = "string"    -> v.value

----------------------------------------------------------------------------
(* Inputs *)

EnvNames == {"SUPABASE_ACCESS_TOKEN", "ZAI_API_KEY"}

EnvValues == {Undefined, JsString(""), JsString("sk-test")}

KnownProviders == {"anthropic", "z-ai", "moonshot"}

Providers == KnownProviders \cup {"openai", "constructor"}

ModelIds == {Undefined, JsString("glm-4.6")}

NoCall == [op |-> "none"]

----------------------------------------------------------------------------
(* Table construction: the initializer of MCP_SERVERS_BY_PROVIDER *)

\* Variant: process.env.NAME with the || '' fallback left out.
EnvOrEmpty_NoFallback(e, name) == e[name]

\* process.env.NAME || ''
EnvOrEmpty(e, name) == JsOr(e[name], JsString(""))

\* `Bearer ${process.env.NAME || ''}`
BearerHeader(e, name) == "Bearer " \o JsToString(EnvOrEmpty(e, name))

anthropicServers(e) ==
    ("grep" :> [type |-> "http", url |-> "https://mcp.grep.app"])
    @@ ("supabase" :>
          [type    |-> "stdio",
           command |-> "npx",
           args    |-> <<"-y", "@supabase/mcp-server-supabase@latest">>,
           env     |-> ("SUPABASE_ACCESS_TOKEN" :> EnvOrEmpty(e, "SUPABASE_ACCESS_TOKEN"))])
    @@ ("sequential-thinking" :>
          [type    |-> "stdio",
           command |-> "npx",
           args    |-> <<"-y", "@modelcontextprotocol/server-sequential-thinking">>])

\* Variant: the z-ai entry written without the media-analysis server.
zaiServers_NoMediaServer(e) ==
    ("grep" :> [type |-> "http", url |-> "https://mcp.grep.app"])
    @@ ("web-search-prime" :>
          [type    |-> "http",
           url     |-> "https://api.z.ai/api/mcp/web_search_prime/mcp",
           headers |-> ("Authorization" :> BearerHeader(e, "ZAI_API_KEY"))])
    @@ ("web-reader" :>
          [type    |-> "http",
           url     |-> "https://api.z.ai/api/mcp/web_reader/mcp",
           headers |-> ("Authorization" :> BearerHeader(e, "ZAI_API_KEY"))])
    @@ ("supabase" :>
          [type    |-> "stdio",
           command |-> "npx",
           args    |-> <<"-y", "@supabase/mcp-server-supabase@latest">>,
           env     |-> ("SUPABASE_ACCESS_TOKEN" :> EnvOrEmpty(e, "SUPABASE_ACCESS_TOKEN"))])
    @@ ("sequential-thinking" :>
          [type    |-> "stdio",
           command |-> "npx",
           args    |-> <<"-y", "@modelcontextprotocol/server-sequential-thinking">>])

zaiServers(e) ==
    ("grep" :> [type |-> "http", url |-> "https://mcp.grep.app"])
    @@ ("web-search-prime" :>
          [type    |-> "http",
           url     |-> "https://api.z.ai/api/mcp/web_search_prime/mcp",
           headers |-> ("Authorization" :> BearerHeader(e, "ZAI_API_KEY"))])
    @@ ("zai-mcp-server" :>
          [type    |-> "stdio",
           command |-> "npx",
           args    |-> <<"-y", "@z_ai/mcp-server">>,
           env     |-> ("Z_AI_API_KEY" :> EnvOrEmpty(e, "ZAI_API_KEY"))
                       @@ ("Z_AI_MODE" :> JsString("ZAI"))])
    @@ ("web-reader" :>
          [type    |-> "http",
           url     |-> "https://api.z.ai/api/mcp/web_reader/mcp",
           headers |-> ("Authorization" :> BearerHeader(e, "ZAI_API_KEY"))])
    @@ ("supabase" :>
          [type    |-> "stdio",
           command |-> "npx",
           args    |-> <<"-y", "@supabase/mcp-server-supabase@latest">>,
           env     |-> ("SUPABASE_ACCESS_TOKEN" :> EnvOrEmpty(e, "SUPABASE_ACCESS_TOKEN"))])
    @@ ("sequential-thinking" :>
          [type    |-> "stdio",
           command |-> "npx",
           args    |-> <<"-y", "@modelcontextprotocol/server-sequential-thinking">>])

\* Variant: the moonshot entry written without the shared grep server.
moonshotServers_NoGrep(e) ==
    ("supabase" :>
          [type    |-> "stdio",
           command |-> "npx",
           args    |-> <<"-y", "@supabase/mcp-server-supabase@latest">>,
           env     |-> ("SUPABASE_ACCESS_TOKEN" :> EnvOrEmpty(e, "SUPABASE_ACCESS_TOKEN"))])
    @@ ("sequential-thinking" :>
          [type    |-> "stdio",
           command |-> "npx",
           args    |-> <<"-y", "@modelcontextprotocol/server-sequential-thinking">>])

moonshotServers(e) ==
    ("grep" :> [type |-> "http", url |-> "https://mcp.grep.app"])
    @@ ("supabase" :>
          [type    |-> "stdio",
           command |-> "npx",
           args    |-> <<"-y", "@supabase/mcp-server-supabase@latest">>,
           env     |-> ("SUPABASE_ACCESS_TOKEN" :> EnvOrEmpty(e, "SUPABASE_ACCESS_TOKEN"))])
    @@ ("sequential-thinking" :>
          [type    |-> "stdio",
           command |-> "npx",
           args    |-> <<"-y", "@modelcontextprotocol/server-sequential-thinking">>])

\* The object literal assigned to MCP_SERVERS_BY_PROVIDER.
BuildRegistry(e) ==
    ("anthropic" :> anthropicServers(e))
    @@ ("z-ai" :> zaiServers(e))
    @@ ("moonshot" :> moonshotServers(e))

----------------------------------------------------------------------------
(* The accessors *)

\* MCP_SERVERS_BY_PROVIDER[provider] || {}
getMcpServers(provider, modelId) ==
    JsOr(PropertyGet(MCP_SERVERS_BY_PROVIDER, provider), <<>>)

grepTools == <<"mcp__grep__searchGitHub">>

\* Variant: the supabase list with its last entry left out.
supabaseTools_MissingDeploy ==
    << "mcp__supabase__search_docs",
       "mcp__supabase__list_organizations",
       "mcp__supabase__get_organization",
       "mcp__supabase__list_projects",
       "mcp__supabase__get_project",
       "mcp__supabase__list_tables",
       "mcp__supabase__list_extensions",
       "mcp__supabase__list_migrations",
       "mcp__supabase__apply_migration",
       "mcp__supabase__execute_sql",
       "mcp__supabase__get_logs",
       "mcp__supabase__get_advisors",
       "mcp__supabase__get_project_url",
       "mcp__supabase__get_publishable_keys",
       "mcp__supabase__generate_typescript_types",
       "mcp__supabase__list_edge_functions",
       "mcp__supabase__get_edge_function" >>

supabaseTools ==
    << "mcp__supabase__search_docs",
       "mcp__supabase__list_organizations",
       "mcp__supabase__get_organization",
       "mcp__supabase__list_projects",
       "mcp__supabase__get_project",
       "mcp__supabase__list_tables",
       "mcp__supabase__list_extensions",
       "mcp__supabase__list_migrations",
       "mcp__supabase__apply_migration",
       "mcp__supabase__execute_sql",
       "mcp__supabase__get_logs",
       "mcp__supabase__get_advisors",
       "mcp__supabase__get_project_url",
       "mcp__supabase__get_publishable_keys",
       "mcp__supabase__generate_typescript_types",
       "mcp__supabase__list_edge_functions",
       "mcp__supabase__get_edge_function",
       "mcp__supabase__deploy_edge_function" >>

sequentialThinkingTools == <<"mcp__sequential-thinking__sequentialthinking_tools">>

\* The z-ai additions, in the order the source lists them.
zaiExtraTools ==
    << "mcp__web-search-prime__search",
       "mcp__zai-mcp-server__image_analysis",
       "mcp__zai-mcp-server__video_analysis",
       "mcp__web-reader__webReader" >>

\* Variant: the z-ai additions spread after the supabase tools.
getAllowedMcpTools_ExtrasAfterSupabase(provider, modelId) ==
    IF provider = "anthropic"
    THEN grepTools \o supabaseTools \o sequentialThinkingTools
    ELSE IF provider = "z-ai"
    THEN grepTools \o supabaseTools \o zaiExtraTools \o sequentialThinkingTools
    ELSE IF provider = "moonshot"
    THEN grepTools \o supabaseTools \o sequentialThinkingTools
    ELSE <<>>

\* Variant: the z-ai branch without the web-reader tool.
getAllowedMcpTools_NoWebReader(provider, modelId) ==
    IF provider = "anthropic"
    THEN grepTools \o supabaseTools \o sequentialThinkingTools
    ELSE IF provider = "z-ai"
    THEN grepTools \o SubSeq(zaiExtraTools, 1, 3) \o supabaseTools
         \o sequentialThinkingTools
    ELSE IF provider = "moonshot"
    THEN grepTools \o supabaseTools \o sequentialThinkingTools
    ELSE <<>>

\* Variant: the moonshot branch copied from the z-ai branch.
getAllowedMcpTools_MoonshotAsZai(provider, modelId) ==
    IF provider = "anthropic"
    THEN grepTools \o supabaseTools \o sequentialThinkingTools
    ELSE IF provider \in {"z-ai", "moonshot"}
    THEN grepTools \o zaiExtraTools \o supabaseTools \o sequentialThinkingTools
    ELSE <<>>

\* Variant: the model id restricts the z-ai tools (media analysis only without one).
getAllowedMcpTools_PerModel(provider, modelId) ==
    IF provider = "anthropic"
    THEN grepTools \o supabaseTools \o sequentialThinkingTools
    ELSE IF provider = "z-ai"
    THEN IF modelId = Undefined
         THEN grepTools \o zaiExtraTools \o supabaseTools \o sequentialThinkingTools
         ELSE grepTools \o <<zaiExtraTools[1], zaiExtraTools[4]>> \o supabaseTools
              \o sequentialThinkingTools
    ELSE IF provider = "moonshot"
    THEN grepTools \o supabaseTools \o sequentialThinkingTools
    ELSE <<>>

getAllowedMcpTools(provider, modelId) ==
    IF provider = "anthropic"
    THEN grepTools \o supabaseTools \o sequentialThinkingTools
    ELSE IF provider = "z-ai"
    THEN grepTools
         \o << "mcp__web-search-prime__search",
               "mcp__zai-mcp-server__image_analysis",
               "mcp__zai-mcp-server__video_analysis",
               "mcp__web-reader__webReader" >>
         \o supabaseTools
         \o sequentialThinkingTools
    ELSE IF provider = "moonshot"
    THEN grepTools \o supabaseTools \o sequentialThinkingTools
    ELSE <<>>

----------------------------------------------------------------------------
(* The state machine *)

Init ==
    /\ phase = "loading"
    /\ env \in [EnvNames -> EnvValues]
    /\ MCP_SERVERS_BY_PROVIDER = <<>>
    /\ returned = [c \in Callers |-> NoCall]

\* Module evaluation: the table is built from the literals and process.env.
LoadModule ==
    /\ phase = "loading"
    /\ MCP_SERVERS_BY_PROVIDER' = BuildRegistry(env)
    /\ phase' = "ready"
    /\ UNCHANGED <<env, returned>>

\* Variant: getMcpServers stores its {} fallback in the table
\* (MCP_SERVERS_BY_PROVIDER[provider] ||= {}).
GetMcpServersCall_CacheFallback(c, provider, modelId) ==
    /\ phase = "ready"
    /\ returned' = [returned EXCEPT ![c] =
                      [op       |-> "getMcpServers",
                       provider |-> provider,
                       modelId  |-> modelId,
                       result   |-> getMcpServers(provider, modelId)]]
    /\ MCP_SERVERS_BY_PROVIDER' =
          IF Truthy(PropertyGet(MCP_SERVERS_BY_PROVIDER, provider))
          THEN MCP_SERVERS_BY_PROVIDER
          ELSE (provider :> <<>>) @@ MCP_SERVERS_BY_PROVIDER
    /\ UNCHANGED <<phase, env>>

\* Caller c calls getMcpServers(provider, modelId).
GetMcpServersCall(c, provider, modelId) ==
    /\ phase = "ready"
    /\ returned' = [returned EXCEPT ![c] =
                      [op       |-> "getMcpServers",
                       provider |-> provider,
                       modelId  |-> modelId,
                       result   |-> getMcpServers(provider, modelId)]]
    /\ UNCHANGED <<phase, env, MCP_SERVERS_BY_PROVIDER>>

\* Caller c calls getAllowedMcpTools(provider, modelId).
GetAllowedMcpToolsCall(c, provider, modelId) ==
    /\ phase = "ready"
    /\ returned' = [returned EXCEPT ![c] =
                      [op       |-> "getAllowedMcpTools",
                       provider |-> provider,
                       modelId  |-> modelId,
                       result   |-> getAllowedMcpTools(provider, modelId)]]
    /\ UNCHANGED <<phase, env, MCP_SERVERS_BY_PROVIDER>>

Next ==
    \/ LoadModule
    \/ \E c \in Callers, provider \in Providers, modelId \in ModelIds :
          GetMcpServersCall(c, provider, modelId)
    \/ \E c \in Callers, provider \in Providers, modelId \in ModelIds :
          GetAllowedMcpToolsCall(c, provider, modelId)

Spec == Init /\ [][Next]_vars

----------------------------------------------------------------------------
(* Properties *)

Range(seq) == {seq[i] : i \in 1..Len(seq)}

IsEmpty(v) == DOMAIN v = {}

\* Caller c's last call was op(provider, _).
Called(c, op, provider) ==
    /\ returned[c].op = op
    /\ returned[c].provider = provider

\* The 18 supabase tool identifiers, in the order of their declaration.
ExpectedDatabaseTools ==
    << "mcp__supabase__search_docs",
       "mcp__supabase__list_organizations",
       "mcp__supabase__get_organization",
       "mcp__supabase__list_projects",
       "mcp__supabase__get_project",
       "mcp__supabase__list_tables",
       "mcp__supabase__list_extensions",
       "mcp__supabase__list_migrations",
       "mcp__supabase__apply_migration",
       "mcp__supabase__execute_sql",
       "mcp__supabase__get_logs",
       "mcp__supabase__get_advisors",
       "mcp__supabase__get_project_url",
       "mcp__supabase__get_publishable_keys",
       "mcp__supabase__generate_typescript_types",
       "mcp__supabase__list_edge_functions",
       "mcp__supabase__get_edge_function",
       "mcp__supabase__deploy_edge_function" >>

\* The base set: code search, database, reasoning.
ExpectedBaseTools ==
    <<"mcp__grep__searchGitHub">>
    \o ExpectedDatabaseTools
    \o <<"mcp__sequential-thinking__sequentialthinking_tools">>

\* C1: every getAllowedMcpTools('z-ai') call returns exactly 24 identifiers:
\* the code-search tool, the web-search tool, the image and video analysis
\* tools, the web-reader tool, the 18 supabase tools in declared order, the
\* sequential-thinking tool, in this order.
C1_ZaiToolsExact ==
    \A c \in Callers :
        Called(c, "getAllowedMcpTools", "z-ai") =>
            /\ Len(ExpectedDatabaseTools) = 18
            /\ Len(returned[c].result) = 24
            /\ returned[c].result =
                  <<"mcp__grep__searchGitHub">>
                  \o <<"mcp__web-search-prime__search">>
                  \o << "mcp__zai-mcp-server__image_analysis",
                        "mcp__zai-mcp-server__video_analysis" >>
                  \o <<"mcp__web-reader__webReader">>
                  \o ExpectedDatabaseTools
                  \o <<"mcp__sequential-thinking__sequentialthinking_tools">>

C1_Witness ==
    \E c \in Callers :
        /\ Called(c, "getAllowedMcpTools", "z-ai")
        /\ Len(returned[c].result) = 24

\* C2: every getAllowedMcpTools('anthropic') call returns exactly 20
\* identifiers: the code-search tool, then the 18 supabase tools in declared
\* order, then the sequential-thinking tool, and nothing else.
C2_AnthropicToolsExact ==
    \A c \in Callers :
        Called(c, "getAllowedMcpTools", "anthropic") =>
            /\ Len(returned[c].result) = 20
            /\ SubSeq(returned[c].result, 1, 1) = <<"mcp__grep__searchGitHub">>
            /\ SubSeq(returned[c].result, 2, 19) = ExpectedDatabaseTools
            /\ SubSeq(returned[c].result, 20, 20) =
                  <<"mcp__sequential-thinking__sequentialthinking_tools">>

C2_Witness ==
    \E c \in Callers :
        /\ Called(c, "getAllowedMcpTools", "anthropic")
        /\ Len(returned[c].result) = 20

\* C3: for a provider that is not anthropic, z-ai or moonshot, getMcpServers
\* returns an empty mapping and getAllowedMcpTools returns an empty sequence.
C3_UnknownProviderEmpty ==
    \A c \in Callers :
        (returned[c].op # "none" /\ returned[c].provider \notin KnownProviders) =>
            IsEmpty(returned[c].result)

\* C4 as stated: the z-ai result is the base set plus exactly five
\* identifiers that are not in the base set.
C4_ZaiFiveExtras ==
    \A c \in Callers :
        Called(c, "getAllowedMcpTools", "z-ai") =>
            /\ Range(getAllowedMcpTools("anthropic", Undefined))
                  \subseteq Range(returned[c].result)
            /\ Cardinality(Range(returned[c].result)
                  \ Range(getAllowedMcpTools("anthropic", Undefined))) = 5

\* C4 (amended): the z-ai result contains every identifier of the base set
\* (the anthropic result) and exactly four identifiers that are not in it:
\* web search, image analysis, video analysis, web reader.
C4_ZaiFourExtras ==
    \A c \in Callers :
        Called(c, "getAllowedMcpTools", "z-ai") =>
            /\ Range(getAllowedMcpTools("anthropic", Undefined))
                  \subseteq Range(returned[c].result)
            /\ Range(returned[c].result)
                  \ Range(getAllowedMcpTools("anthropic", Undefined)) =
                  { "mcp__web-search-prime__search",
                    "mcp__zai-mcp-server__image_analysis",
                    "mcp__zai-mcp-server__video_analysis",
                    "mcp__web-reader__webReader" }
            /\ Cardinality(Range(returned[c].result)
                  \ Range(getAllowedMcpTools("anthropic", Undefined))) = 4

C4_Witness ==
    \E c \in Callers :
        /\ Called(c, "getAllowedMcpTools", "z-ai")
        /\ "mcp__web-reader__webReader" \in Range(returned[c].result)
        /\ "mcp__web-reader__webReader"
              \notin Range(getAllowedMcpTools("anthropic", Undefined))

\* C5: a getAllowedMcpTools('moonshot') call and a
\* getAllowedMcpTools('anthropic') call return the same sequence.
C5_MoonshotSameAsAnthropic ==
    \A c1, c2 \in Callers :
        (/\ Called(c1, "getAllowedMcpTools", "moonshot")
         /\ Called(c2, "getAllowedMcpTools", "anthropic")) =>
            /\ Len(returned[c1].result) = Len(returned[c2].result)
            /\ returned[c1].result = returned[c2].result

C5_Witness ==
    \E c1, c2 \in Callers :
        /\ Called(c1, "getAllowedMcpTools", "moonshot")
        /\ Called(c2, "getAllowedMcpTools", "anthropic")
        /\ returned[c1].result # <<>>

\* C6: the model identifier has no effect: two calls of the same operation
\* with the same provider and different model identifiers (absent included)
\* return the same result, and so does every other choice of model.
C6_ModelIdIgnored ==
    /\ \A c1, c2 \in Callers :
          (/\ returned[c1].op # "none"
           /\ returned[c1].op = returned[c2].op
           /\ returned[c1].provider = returned[c2].provider
           /\ returned[c1].modelId # returned[c2].modelId) =>
              returned[c1].result = returned[c2].result
    /\ phase = "ready" =>
          \A p \in Providers : \A m1, m2 \in ModelIds :
              /\ getAllowedMcpTools(p, m1) = getAllowedMcpTools(p, m2)
              /\ getMcpServers(p, m1) = getMcpServers(p, m2)

C6_Witness ==
    \E c1, c2 \in Callers :
        /\ Called(c1, "getAllowedMcpTools", "z-ai")
        /\ Called(c2, "getAllowedMcpTools", "z-ai")
        /\ returned[c1].modelId = Undefined
        /\ returned[c2].modelId = JsString("glm-4.6")

\* Two calls of the same operation with the same provider returned the same.
SameCallSameResult ==
    \A c1, c2 \in Callers :
        (/\ returned[c1].op # "none"
         /\ returned[c1].op = returned[c2].op
         /\ returned[c1].provider = returned[c2].provider) =>
            returned[c1].result = returned[c2].result

\* C7: once built the table never changes: it holds what construction put
\* there, no call of either operation by any caller changes it, and two
\* calls of the same operation with the same provider return identical
\* results.
C7_RegistryFrozen ==
    /\ [](phase = "ready" => MCP_SERVERS_BY_PROVIDER = BuildRegistry(env))
    /\ [][phase = "ready" =>
            MCP_SERVERS_BY_PROVIDER' = MCP_SERVERS_BY_PROVIDER]_vars
    /\ []SameCallSameResult

C7_Witness ==
    /\ Called(1, "getMcpServers", "openai")
    /\ Called(2, "getMcpServers", "openai")
    /\ MCP_SERVERS_BY_PROVIDER = BuildRegistry(env)

\* The descriptors of the table that carry an Authorization header.
AuthorizedServers ==
    { <<"z-ai", "web-search-prime">>, <<"z-ai", "web-reader">> }

\* The credential injected into a launched process: <<provider, server,
\* injected entry, process.env name it is read from>>.
InjectedCredentials ==
    { <<p, "supabase", "SUPABASE_ACCESS_TOKEN", "SUPABASE_ACCESS_TOKEN">> :
        p \in KnownProviders }
    \cup { <<"z-ai", "zai-mcp-server", "Z_AI_API_KEY", "ZAI_API_KEY">> }

\* C8: with the credential variable unset when the table is built, every
\* Authorization header is "Bearer " followed by nothing, every injected
\* credential entry is present with the empty string (never undefined or
\* absent), and construction goes through.
C8_MissingCredentialEmpty ==
    /\ phase \in {"loading", "ready"}
    /\ phase = "loading" => ENABLED LoadModule
    /\ phase = "ready" =>
          /\ \A p \in DOMAIN MCP_SERVERS_BY_PROVIDER :
                \A s \in DOMAIN MCP_SERVERS_BY_PROVIDER[p] :
                    LET d == MCP_SERVERS_BY_PROVIDER[p][s] IN
                    "headers" \in DOMAIN d =>
                        /\ <<p, s>> \in AuthorizedServers
                        /\ "Authorization" \in DOMAIN d.headers
                        /\ env["ZAI_API_KEY"] = Undefined =>
                              /\ d.headers["Authorization"] = "Bearer " \o ""
                              /\ Len(d.headers["Authorization"]) = 7
          /\ \A a \in AuthorizedServers :
                "headers" \in DOMAIN MCP_SERVERS_BY_PROVIDER[a[1]][a[2]]
          /\ \A i \in InjectedCredentials :
                LET d == MCP_SERVERS_BY_PROVIDER[i[1]][i[2]] IN
                /\ "env" \in DOMAIN d
                /\ i[3] \in DOMAIN d.env
                /\ d.env[i[3]] # Undefined
                /\ env[i[4]] = Undefined => d.env[i[3]] = JsString("")

C8_Witness ==
    /\ phase = "ready"
    /\ env["ZAI_API_KEY"] = Undefined
    /\ env["SUPABASE_ACCESS_TOKEN"] = Undefined
    /\ MCP_SERVERS_BY_PROVIDER["z-ai"]["web-reader"].headers["Authorization"]
          = "Bearer "
    /\ MCP_SERVERS_BY_PROVIDER["z-ai"]["zai-mcp-server"].env["Z_AI_API_KEY"]
          = JsString("")

\* C9: for anthropic, z-ai and moonshot, what getMcpServers returns contains
\* the server 'grep', an HTTP descriptor with the URL https://mcp.grep.app.
C9_GrepEverywhere ==
    \A c \in Callers : \A p \in KnownProviders :
        Called(c, "getMcpServers", p) =>
            /\ "grep" \in DOMAIN returned[c].result
            /\ returned[c].result["grep"].type = "http"
            /\ returned[c].result["grep"].url = "https://mcp.grep.app"

C9_Witness ==
    \E c1, c2 \in Callers :
        /\ Called(c1, "getMcpServers", "moonshot")
        /\ Called(c2, "getMcpServers", "z-ai")
        /\ returned[c1].result["grep"] = returned[c2].result["grep"]

\* id is mcp__<server>__<tool> with a non-empty tool name.
ToolOfServer(id, server) ==
    LET prefix == "mcp__" \o server \o "__" IN
    /\ Len(id) > Len(prefix)
    /\ SubSeq(id, 1, Len(prefix)) = prefix

\* C10: for a known provider the allow-list and the table agree: every
\* allowed identifier is mcp__<server>__<tool> for a server of
\* getMcpServers, every server of getMcpServers has an allowed tool, and no
\* identifier is listed twice.
C10_AllowListMatchesServers ==
    \A c1, c2 \in Callers : \A p \in KnownProviders :
        (/\ Called(c1, "getAllowedMcpTools", p)
         /\ Called(c2, "getMcpServers", p)) =>
            LET tools   == returned[c1].result
                servers == returned[c2].result
            IN  /\ \A i \in 1..Len(tools) :
                      \E s \in DOMAIN servers : ToolOfServer(tools[i], s)
                /\ \A s \in DOMAIN servers :
                      \E i \in 1..Len(tools) : ToolOfServer(tools[i], s)
                /\ \A i, j \in 1..Len(tools) : tools[i] = tools[j] => i = j

C10_Witness ==
    \E c1, c2 \in Callers :
        /\ Called(c1, "getAllowedMcpTools", "z-ai")
        /\ Called(c2, "getMcpServers", "z-ai")
        /\ ToolOfServer(returned[c1].result[3], "zai-mcp-server")
        /\ "zai-mcp-server" \in DOMAIN returned[c2].result

====
